---- MODULE Spec2Model ----
(***************************************************************************)
(* Ethereal Balance storefront: the checkout/order lifecycle of            *)
(* src/functions/index.js.                                                 *)
(*                                                                         *)
(*   createCheckoutSession  validates a CheckoutRequest against the        *)
(*                          products collection and creates a payment      *)
(*                          session (lines 58-183)                         *)
(*   stripeWebhook          verifies a payment event, adds the Order,      *)
(*                          decrements inventory in one transaction per    *)
(*                          physical item and queues mail (lines 190-374)  *)
(*                                                                         *)
(* Every await of the handlers is a step boundary: the synchronous code    *)
(* between two awaits runs in the step of the store operation that ends    *)
(* it.  Handlers of different requests interleave at these boundaries.     *)
(* A store operation may throw; the handler's catch block then runs in     *)
(* the same step.                                                          *)
(***************************************************************************)
EXTENDS Integers, Sequences, FiniteSets, TLC

\* ------------------------------------------------------------- bounds
MaxItems == 2
MaxQty == 2
MaxRequests == 2
MaxDeliveries == 2
MaxFaults == 1
InitStock == 1
MaxCalls == 4

VARIABLES
    products,   \* collection "products": id -> document
    orders,     \* collection "orders": set of documents
    mail,       \* collection "mail": set of documents
    sessions,   \* payment sessions created at the payment provider
    req,        \* the createCheckoutSession invocation being served
    nreq,       \* number of createCheckoutSession invocations so far
    hook,       \* stripeWebhook invocations: delivery -> handler state
    faults,     \* number of store / provider operations that have thrown
    storage,    \* the browser's localStorage entry 'eb_cart'
    ui,         \* what the page shows of the cart: badge, subtotal, drawer
    held,       \* the items of the cart object last saved (empty once cleared)
    calls,      \* the calls made to the cart module, oldest first
    now,        \* Date.now()
    modal,      \* the product modal: currentModalProduct and #modalQuantity
    btn,        \* the checkout button #cartCheckoutBtn: label, disabled
    pending,    \* the initiateCheckout call awaiting its response, if any
    sent,       \* the bodies posted to createCheckoutSession, oldest first
    alerts,     \* the messages shown with alert(), oldest first
    location    \* where the browser is: the storefront or the payment provider

\* What the page holds beside the cart.
page == <<modal, btn, pending, sent, alerts, location>>

\* The state of the storefront page in the shopper's browser.
client == <<storage, ui, held, calls, now, page>>

vars == <<products, orders, mail, sessions, req, nreq, hook, faults, client>>

\* The "unlimited" inventory sentinel.
Unlimited == -1

\* ------------------------------------------------------------ catalog
\* The product documents the store starts with: a physical product with a
\* finite stock, a physical product with unlimited stock, a digital product
\* with a download URL, a digital product whose document has no download URL,
\* and a product that has been deactivated.
Catalog ==
    [p \in {"mat", "oil", "ebook", "audio", "retired"} |->
        CASE p = "mat" ->
                [name |-> "Yoga Mat", price |-> 40, category |-> "physical",
                 inventory |-> InitStock, isActive |-> TRUE,
                 digitalFileUrl |-> "", version |-> 0]
          [] p = "oil" ->
                [name |-> "Body Oil", price |-> 15, category |-> "physical",
                 inventory |-> Unlimited, isActive |-> TRUE,
                 digitalFileUrl |-> "", version |-> 0]
          [] p = "ebook" ->
                [name |-> "Breath Guide", price |-> 9, category |-> "digital",
                 inventory |-> Unlimited, isActive |-> TRUE,
                 digitalFileUrl |-> "https://files/guide.pdf", version |-> 0]
          [] p = "audio" ->
                [name |-> "Sleep Track", price |-> 5, category |-> "digital",
                 inventory |-> Unlimited, isActive |-> TRUE,
                 digitalFileUrl |-> "", version |-> 0]
          [] OTHER ->
                [name |-> "Old Candle", price |-> 12, category |-> "physical",
                 inventory |-> InitStock, isActive |-> FALSE,
                 digitalFileUrl |-> "", version |-> 0]]

ProductIds == DOMAIN Catalog

\* ------------------------------------------------------------- inputs
\* A request item as the client sends it.  productId "" and quantity 0 stand
\* for a missing (falsy) field; price is a field the client may add although
\* the CheckoutRequest has none (0: not sent).
ForgedPrice == 1

\* The items a request may carry.  Well-formed ones name a product of the
\* catalog or one that does not exist ("ghost"); malformed ones lack the
\* productId or carry a quantity that is missing (0) or negative.
ItemInputs ==
    [productId : (ProductIds \ {"audio"}) \cup {"ghost"}, quantity : 1 .. MaxQty, price : {0}]
        \cup [productId : {"audio"}, quantity : {1}, price : {0}]
        \cup [productId : {"mat", "ebook"}, quantity : {1}, price : {ForgedPrice}]
        \cup [productId : {""}, quantity : {1}, price : {0}]
        \cup [productId : {"mat"}, quantity : {-1, 0}, price : {0}]

\* The items the storefront's cart sends: one unit of an active product, no
\* price field.
ShopItems ==
    [productId : {"mat", "oil", "ebook"}, quantity : {1}, price : {0}]

RECURSIVE SeqsUpTo(_, _)
SeqsUpTo(S, n) ==
    IF n = 0 THEN {<<>>}
    ELSE LET shorter == SeqsUpTo(S, n - 1)
         IN  shorter \cup {Append(s, x) : s \in {t \in shorter : Len(t) = n - 1}, x \in S}

ReturnUrl == "https://shop/return"

\* body.items: absent (or another falsy value), a truthy value that is not an
\* array, or an array of items.
ItemsList(l) == [kind |-> "list", list |-> l]
ItemsMissing == [kind |-> "missing", list |-> <<>>]
ItemsNotList == [kind |-> "notlist", list |-> <<>>]

\* Any request a client can send: every items value with both redirect URLs,
\* and every combination of absent URLs with a few items values.
Bodies ==
    [items : {ItemsMissing, ItemsNotList} \cup {ItemsList(l) : l \in SeqsUpTo(ItemInputs, MaxItems)},
     successUrl : {ReturnUrl}, cancelUrl : {ReturnUrl}]
        \cup [items : {ItemsMissing, ItemsList(<<>>), ItemsList(<<[productId |-> "oil", quantity |-> 1, price |-> 0]>>)},
              successUrl : {"", ReturnUrl}, cancelUrl : {"", ReturnUrl}]

Requests ==
    [method : {"POST"}, body : Bodies]
        \cup [method : {"GET", "OPTIONS"},
              body : {[items |-> ItemsMissing, successUrl |-> ReturnUrl, cancelUrl |-> ReturnUrl]}]

\* The requests of the storefront (src/js/checkout.js): a POST with the cart's
\* lines and both redirect URLs.
ShopRequests ==
    [method : {"POST"},
     body : [items : {ItemsList(l) : l \in SeqsUpTo(ShopItems, MaxItems) \ {<<>>}},
             successUrl : {ReturnUrl}, cancelUrl : {ReturnUrl}]]

\* ------------------------------------------------- createCheckoutSession
NoError == [msg |-> "", name |-> "", left |-> 0]

\* `!items || !Array.isArray(items) || items.length === 0`
NoItemsProvided(items) ==
    \/ items.kind = "missing"
    \/ items.kind # "list"
    \/ Len(items.list) = 0

\* Variant: only the success URL is required.
MissingSuccessUrlOnly(body) == body.successUrl = ""

\* `!successUrl || !cancelUrl`
MissingRedirectUrls(body) == body.successUrl = "" \/ body.cancelUrl = ""

\* Variant: the range check on the quantity is left out.
InvalidItemDataNoRange(item) ==
    \/ item.productId = ""
    \/ item.quantity = 0

\* `!item.productId || !item.quantity || item.quantity < 1`
InvalidItemData(item) ==
    \/ item.productId = ""
    \/ item.quantity = 0
    \/ item.quantity < 1

\* Variant: a quantity equal to the inventory counts as out of stock.
OutOfStockAtEqual(product, item) ==
    /\ product.category = "physical"
    /\ product.inventory # Unlimited
    /\ product.inventory <= item.quantity

\* `product.category === "physical" && product.inventory !== -1` and then
\* `product.inventory < item.quantity`
OutOfStock(product, item) ==
    /\ product.category = "physical"
    /\ product.inventory # Unlimited
    /\ product.inventory < item.quantity

\* Variant: the line item is priced with the price field of the request item.
LineItemClientPrice(item, product) ==
    [name |-> product.name,
     firebaseProductId |-> item.productId,
     unit_amount |-> item.price,
     quantity |-> item.quantity]

\* The entry pushed on lineItems.
LineItem(item, product) ==
    [name |-> product.name,
     firebaseProductId |-> item.productId,
     unit_amount |-> product.price,
     quantity |-> item.quantity]

\* The entry pushed on orderItems.
OrderItem(item, product) ==
    [productId |-> item.productId,
     name |-> product.name,
     price |-> product.price,
     quantity |-> item.quantity,
     category |-> product.category]

\* JSON.stringify / JSON.parse of the order-item snapshot.  The snapshot holds
\* only strings and integers, which JSON text carries unchanged; an absent
\* metadata field is no text at all.
JSONstringify(v) == [text |-> TRUE, json |-> v]
NoText == [text |-> FALSE, json |-> <<>>]

\* Variant: the snapshot is looked up under a key the metadata does not hold,
\* so the "[]" default is parsed.
ParseOrderItemsMissingKey(s) == <<>>

\* `JSON.parse(session.metadata.orderItems || "[]")`
ParseOrderItems(s) == IF s.text THEN s.json ELSE <<>>

\* Variant: every session collects a shipping address.
SessionConfigAlwaysShipping(r, body) ==
    [id |-> r.id,
     line_items |-> r.lineItems,
     success_url |-> body.successUrl,
     cancel_url |-> body.cancelUrl,
     metadata |-> [orderItems |-> JSONstringify(r.orderItems)],
     shipping_address_collection |-> TRUE]

\* sessionConfig, as given to stripe.checkout.sessions.create.
SessionConfig(r, body) ==
    [id |-> r.id,
     line_items |-> r.lineItems,
     success_url |-> body.successUrl,
     cancel_url |-> body.cancelUrl,
     metadata |-> [orderItems |-> JSONstringify(r.orderItems)],
     shipping_address_collection |-> r.hasPhysical]

Idle ==
    [pc |-> "idle", id |-> 0, method |-> "", body |-> [items |-> ItemsMissing, successUrl |-> "", cancelUrl |-> ""],
     i |-> 0, lineItems |-> <<>>, orderItems |-> <<>>, hasPhysical |-> FALSE,
     fetched |-> <<>>, reads |-> 0, status |-> 0, error |-> NoError, sessionUrl |-> 0]

\* res.status(code).json({error}) followed by return.
Respond(r, code, err) ==
    [r EXCEPT !.pc = "done", !.status = code, !.error = err]

\* The head of `for (const item of items)`: the synchronous code that runs
\* until the next await (the product read of item i, or the session creation
\* after the last item) or until a response is sent.
LoopHead(r) ==
    IF r.i > Len(r.body.items.list)
    THEN [r EXCEPT !.pc = "create"]
    ELSE IF InvalidItemData(r.body.items.list[r.i])
         THEN Respond(r, 400, [NoError EXCEPT !.msg = "Invalid item data"])
         ELSE [r EXCEPT !.pc = "fetch", !.reads = @ + 1]

\* The request arrives: method checks, destructuring of the body, the two
\* checks on the body, and the loop up to its first product read.
Arrive(id, method, body) ==
    LET r == [Idle EXCEPT !.id = id, !.method = method, !.body = body, !.i = 1]
    IN  IF method = "OPTIONS" THEN Respond(r, 204, NoError)
        ELSE IF method # "POST"
             THEN Respond(r, 405, [NoError EXCEPT !.msg = "Method not allowed"])
        ELSE IF NoItemsProvided(body.items)
             THEN Respond(r, 400, [NoError EXCEPT !.msg = "No items provided"])
        ELSE IF MissingRedirectUrls(body)
             THEN Respond(r, 400, [NoError EXCEPT !.msg = "Missing redirect URLs"])
        ELSE LoopHead(r)

\* The product read of item i has returned: the checks on the document, the
\* two pushes, and the loop up to the next await.
Fetched(r, docs) ==
    LET item == r.body.items.list[r.i]
    IN  IF item.productId \notin DOMAIN docs
        THEN Respond(r, 400, [NoError EXCEPT !.msg = "Product not found", !.name = item.productId])
        ELSE LET product == docs[item.productId]
             IN  IF ~product.isActive
                 THEN Respond(r, 400, [NoError EXCEPT !.msg = "is no longer available", !.name = product.name])
                 ELSE IF OutOfStock(product, item)
                 THEN Respond(r, 400, [msg |-> "only has left in stock", name |-> product.name, left |-> product.inventory])
                 ELSE LoopHead([r EXCEPT
                        !.hasPhysical = @ \/ product.category = "physical",
                        !.lineItems = Append(@, LineItem(item, product)),
                        !.orderItems = Append(@, OrderItem(item, product)),
                        !.fetched = Append(@, product),
                        !.i = @ + 1])

CheckoutStart(method, body) ==
    /\ req.pc \in {"idle", "done"}
    /\ nreq < MaxRequests
    /\ nreq' = nreq + 1
    /\ req' = Arrive(nreq + 1, method, body)
    /\ UNCHANGED <<products, orders, mail, sessions, hook, faults, client>>

CheckoutFetch ==
    /\ req.pc = "fetch"
    /\ \/ /\ req' = Fetched(req, products)
          /\ UNCHANGED faults
       \/ /\ faults < MaxFaults
          /\ faults' = faults + 1
          /\ req' = Respond(req, 500, [NoError EXCEPT !.msg = "Failed to create checkout session"])
    /\ UNCHANGED <<products, orders, mail, sessions, nreq, hook, client>>

CheckoutCreate ==
    /\ req.pc = "create"
    /\ \/ /\ sessions' = sessions \cup {SessionConfig(req, req.body)}
          /\ req' = [req EXCEPT !.pc = "done", !.status = 200, !.sessionUrl = req.id]
          /\ UNCHANGED faults
       \/ /\ faults < MaxFaults
          /\ faults' = faults + 1
          /\ req' = Respond(req, 500, [NoError EXCEPT !.msg = "Failed to create checkout session"])
          /\ UNCHANGED sessions
    /\ UNCHANGED <<products, orders, mail, nreq, hook, client>>

\* ---------------------------------------------------------- stripeWebhook
EventTypes ==
    {"checkout.session.completed", "payment_intent.payment_failed", "charge.refunded"}

\* event.data.object of an event that is not about a checkout session.
NoObject ==
    [id |-> 0, line_items |-> <<>>, success_url |-> "", cancel_url |-> "",
     metadata |-> [orderItems |-> NoText], shipping_address_collection |-> FALSE]

\* A session object made up by a sender that does not hold the webhook secret.
ForgedSession ==
    [id |-> 99, line_items |-> <<>>, success_url |-> "", cancel_url |-> "",
     metadata |-> [orderItems |-> JSONstringify(
        <<[productId |-> "mat", name |-> "Yoga Mat", price |-> ForgedPrice,
           quantity |-> 1, category |-> "physical"]>>)],
     shipping_address_collection |-> FALSE]

\* session.customer_details.email, filled in by the payment provider.
CustomerEmail(session) == "buyer@example.com"

HookIdle ==
    [pc |-> "idle", sigOK |-> FALSE, type |-> "", object |-> NoObject, order |-> 0,
     i |-> 0, exists |-> FALSE, cur |-> 0, ver |-> 0, links |-> <<>>,
     status |-> 0, failed |-> FALSE, at |-> ""]

\* Variant: the event type is looked at before the outcome of the signature
\* check.
RouteTypeFirst(sigOK, type) ==
    IF type = "checkout.session.completed" THEN "reconcile"
    ELSE IF ~sigOK THEN "reject"
    ELSE "acknowledge"

\* Variant: the payment_intent.payment_failed case runs the reconciliation.
RouteFailedPaymentReconciled(sigOK, type) ==
    IF ~sigOK THEN "reject"
    ELSE IF type \in {"checkout.session.completed", "payment_intent.payment_failed"}
         THEN "reconcile"
    ELSE "acknowledge"

\* What the handler does with a request: the try/catch around constructEvent
\* (lines 196-202) and the switch on event.type (lines 205-371).
Route(sigOK, type) ==
    IF ~sigOK THEN "reject"
    ELSE IF type = "checkout.session.completed" THEN "reconcile"
    ELSE "acknowledge"

\* The response that ends the handler.  A rejected signature returns 400; every
\* other path, the catch block of the reconciliation included, reaches
\* res.json({received: true}) at line 373.
Finish(h, code, threw) ==
    [h EXCEPT !.pc = "done", !.status = code, !.failed = threw,
              !.i = 0, !.exists = FALSE, !.cur = 0, !.ver = 0, !.links = <<>>]

\* The catch block at lines 353-355 logs the error; the handler then responds
\* at line 373.  `at` keeps the operation that threw.
Caught(h) == [Finish(h, 200, TRUE) EXCEPT !.at = h.pc]

OrderItemsOf(h) == ParseOrderItems(h.object.metadata.orderItems)

\* The least index k >= i of an item of the given category, 0 when none.
NextOfCategory(items, i, category) ==
    LET ks == {k \in i .. Len(items) : items[k].category = category}
    IN  IF ks = {} THEN 0 ELSE CHOOSE k \in ks : \A j \in ks : k <= j

\* The document given to db.collection("orders").add; its generated id is
\* unique to the invocation that adds it.
NewOrder(d, session) ==
    [id |-> d,
     stripeSessionId |-> session.id,
     customerEmail |-> CustomerEmail(session),
     items |-> ParseOrderItems(session.metadata.orderItems),
     status |-> "paid",
     digitalDelivered |-> FALSE]

\* `for (const item of orderItems)` from item i on, up to the next transaction
\* or, after the last item, to the confirmation mail.
InventoryLoop(h, i) ==
    LET k == NextOfCategory(OrderItemsOf(h), i, "physical")
    IN  IF k # 0 THEN [h EXCEPT !.pc = "txnGet", !.i = k]
        ELSE [h EXCEPT !.pc = "mail", !.i = 0]

\* Variant: the transaction updates the inventory whatever it read.
TxnUpdatesAlways(currentInventory) == TRUE

\* `currentInventory !== -1`: whether the transaction function issues its
\* update.
TxnUpdates(currentInventory) == currentInventory # Unlimited

\* The inventory the update writes.
InventoryWritten(currentInventory, quantity) == currentInventory - quantity

\* The handler is invoked with a request.  constructEvent, the switch, and for
\* a completed session the parse of the snapshot and the add of the Order.
WebhookReceive(n, sigOK, type, object) ==
    \E d \in 1 .. n :
        /\ hook[d].pc = "idle"
        /\ \A e \in 1 .. d - 1 : hook[e].pc # "idle"
        /\ LET h == [HookIdle EXCEPT !.sigOK = sigOK, !.type = type, !.object = object]
               route == Route(sigOK, type)
           IN  \/ /\ route = "reject"
                  /\ hook' = [hook EXCEPT ![d] = Finish(h, 400, FALSE)]
                  /\ UNCHANGED <<orders, faults>>
               \/ /\ route = "acknowledge"
                  /\ hook' = [hook EXCEPT ![d] = Finish(h, 200, FALSE)]
                  /\ UNCHANGED <<orders, faults>>
               \/ /\ route = "reconcile"
                  /\ orders' = orders \cup {NewOrder(d, object)}
                  /\ hook' = [hook EXCEPT ![d] = InventoryLoop([h EXCEPT !.order = d], 1)]
                  /\ UNCHANGED faults
               \/ /\ route = "reconcile"
                  /\ faults < MaxFaults
                  /\ faults' = faults + 1
                  /\ hook' = [hook EXCEPT ![d] = Caught([h EXCEPT !.pc = "addOrder"])]
                  /\ UNCHANGED orders
        /\ UNCHANGED <<products, mail, sessions, req, nreq, client>>

\* Variant: when the read throws, the units this delivery has taken for the
\* items before it are put back.
TxnGetRestocks(d) ==
    /\ hook[d].pc = "txnGet"
    /\ LET h == hook[d]
           items == OrderItemsOf(h)
           pid == items[h.i].productId
           taken(p) == \E k \in 1 .. h.i - 1 :
                          /\ items[k].productId = p
                          /\ items[k].category = "physical"
       IN  \/ /\ hook' = [hook EXCEPT ![d] =
                    IF pid \in DOMAIN products
                    THEN [h EXCEPT !.pc = "txnCommit", !.exists = TRUE,
                                   !.cur = products[pid].inventory,
                                   !.ver = products[pid].version]
                    ELSE [h EXCEPT !.pc = "txnCommit", !.exists = FALSE]]
              /\ UNCHANGED <<faults, products>>
           \/ /\ faults < MaxFaults
              /\ faults' = faults + 1
              /\ hook' = [hook EXCEPT ![d] = Caught(h)]
              /\ products' = [p \in DOMAIN products |->
                    IF taken(p) /\ products[p].inventory # Unlimited
                    THEN [products[p] EXCEPT !.inventory = @ + 1, !.version = @ + 1]
                    ELSE products[p]]
    /\ UNCHANGED <<orders, mail, sessions, req, nreq, client>>

\* transaction.get(productRef)
TxnGet(d) ==
    /\ hook[d].pc = "txnGet"
    /\ LET h == hook[d]
           pid == OrderItemsOf(h)[h.i].productId
       IN  \/ /\ hook' = [hook EXCEPT ![d] =
                    IF pid \in DOMAIN products
                    THEN [h EXCEPT !.pc = "txnCommit", !.exists = TRUE,
                                   !.cur = products[pid].inventory,
                                   !.ver = products[pid].version]
                    ELSE [h EXCEPT !.pc = "txnCommit", !.exists = FALSE]]
              /\ UNCHANGED faults
           \/ /\ faults < MaxFaults
              /\ faults' = faults + 1
              /\ hook' = [hook EXCEPT ![d] = Caught(h)]
    /\ UNCHANGED <<products, orders, mail, sessions, req, nreq, client>>

\* The transaction commits: when the document has been written since it was
\* read the store runs the transaction function again; otherwise the update,
\* if the function issued one, is applied.
TxnCommit(d) ==
    /\ hook[d].pc = "txnCommit"
    /\ LET h == hook[d]
           item == OrderItemsOf(h)[h.i]
           pid == item.productId
       IN  \/ /\ h.exists
              /\ products[pid].version # h.ver
              /\ hook' = [hook EXCEPT ![d] = [h EXCEPT !.pc = "txnGet"]]
              /\ UNCHANGED <<products, faults>>
           \/ /\ h.exists => products[pid].version = h.ver
              /\ products' =
                    IF h.exists /\ TxnUpdates(h.cur)
                    THEN [products EXCEPT ![pid].inventory = InventoryWritten(h.cur, item.quantity),
                                          ![pid].version = @ + 1]
                    ELSE products
              /\ hook' = [hook EXCEPT ![d] = InventoryLoop(h, h.i + 1)]
              /\ UNCHANGED faults
           \/ /\ faults < MaxFaults
              /\ faults' = faults + 1
              /\ hook' = [hook EXCEPT ![d] = Caught(h)]
              /\ UNCHANGED products
    /\ UNCHANGED <<orders, mail, sessions, req, nreq, client>>

\* Variant: an order with a digital item is marked delivered once its products
\* have been read, whether or not any link was found or sent.
DigitalLoopMarksUnsent(h, i) ==
    LET k == NextOfCategory(OrderItemsOf(h), i, "digital")
    IN  IF k # 0 THEN [h EXCEPT !.pc = "digitalGet", !.i = k]
        ELSE IF NextOfCategory(OrderItemsOf(h), 1, "digital") # 0
             THEN [h EXCEPT !.pc = "markDelivered", !.i = 0]
        ELSE Finish(h, 200, FALSE)

\* After the confirmation mail: the filter for digital items and the loop over
\* them up to its next product read, or the end of the handler.
DigitalLoop(h, i) ==
    LET k == NextOfCategory(OrderItemsOf(h), i, "digital")
    IN  IF k # 0 THEN [h EXCEPT !.pc = "digitalGet", !.i = k]
        ELSE IF Len(h.links) > 0 THEN [h EXCEPT !.pc = "mailLinks", !.i = 0]
        ELSE Finish(h, 200, FALSE)

\* Variant: when the confirmation cannot be queued, the Order is deleted.
MailConfirmationRollsBack(d) ==
    /\ hook[d].pc = "mail"
    /\ LET h == hook[d]
       IN  \/ /\ mail' = mail \cup {[to |-> CustomerEmail(h.object), subject |-> "Order Confirmation", order |-> h.order]}
              /\ hook' = [hook EXCEPT ![d] = DigitalLoop(h, 1)]
              /\ UNCHANGED <<faults, orders>>
           \/ /\ faults < MaxFaults
              /\ faults' = faults + 1
              /\ hook' = [hook EXCEPT ![d] = Caught(h)]
              /\ orders' = {o \in orders : o.id # h.order}
              /\ UNCHANGED mail
    /\ UNCHANGED <<products, sessions, req, nreq, client>>

\* db.collection("mail").add of the order confirmation
MailConfirmation(d) ==
    /\ hook[d].pc = "mail"
    /\ LET h == hook[d]
       IN  \/ /\ mail' = mail \cup {[to |-> CustomerEmail(h.object), subject |-> "Order Confirmation", order |-> h.order]}
              /\ hook' = [hook EXCEPT ![d] = DigitalLoop(h, 1)]
              /\ UNCHANGED faults
           \/ /\ faults < MaxFaults
              /\ faults' = faults + 1
              /\ hook' = [hook EXCEPT ![d] = Caught(h)]
              /\ UNCHANGED mail
    /\ UNCHANGED <<products, orders, sessions, req, nreq, client>>

\* The product read of a digital item, and the push of its download link.
DigitalGet(d) ==
    /\ hook[d].pc = "digitalGet"
    /\ LET h == hook[d]
           item == OrderItemsOf(h)[h.i]
           pid == item.productId
           linked == IF pid \in DOMAIN products /\ products[pid].digitalFileUrl # ""
                     THEN Append(h.links, [name |-> item.name, url |-> products[pid].digitalFileUrl])
                     ELSE h.links
       IN  \/ /\ hook' = [hook EXCEPT ![d] = DigitalLoop([h EXCEPT !.links = linked], h.i + 1)]
              /\ UNCHANGED faults
           \/ /\ faults < MaxFaults
              /\ faults' = faults + 1
              /\ hook' = [hook EXCEPT ![d] = Caught(h)]
    /\ UNCHANGED <<products, orders, mail, sessions, req, nreq, client>>

\* db.collection("mail").add of the download links
MailLinks(d) ==
    /\ hook[d].pc = "mailLinks"
    /\ LET h == hook[d]
       IN  \/ /\ mail' = mail \cup {[to |-> CustomerEmail(h.object), subject |-> "Your Digital Downloads", order |-> h.order]}
              /\ hook' = [hook EXCEPT ![d] = [h EXCEPT !.pc = "markDelivered"]]
              /\ UNCHANGED faults
           \/ /\ faults < MaxFaults
              /\ faults' = faults + 1
              /\ hook' = [hook EXCEPT ![d] = Caught(h)]
              /\ UNCHANGED mail
    /\ UNCHANGED <<products, orders, sessions, req, nreq, client>>

\* orderRef.update({digitalDelivered: true})
MarkDelivered(d) ==
    /\ hook[d].pc = "markDelivered"
    /\ LET h == hook[d]
       IN  \/ /\ orders' = {IF o.id = h.order THEN [o EXCEPT !.digitalDelivered = TRUE] ELSE o : o \in orders}
              /\ hook' = [hook EXCEPT ![d] = Finish(h, 200, FALSE)]
              /\ UNCHANGED faults
           \/ /\ faults < MaxFaults
              /\ faults' = faults + 1
              /\ hook' = [hook EXCEPT ![d] = Caught(h)]
              /\ UNCHANGED orders
    /\ UNCHANGED <<products, mail, sessions, req, nreq, client>>

\* The events the payment provider signs: a completed checkout of a session it
\* holds, or an event of another type.
SignedEvents ==
    [sigOK : {TRUE}, type : {"checkout.session.completed"}, object : sessions]
        \cup [sigOK : {TRUE}, type : EventTypes \ {"checkout.session.completed"}, object : {NoObject}]

\* Requests whose signature does not verify; their payload is the sender's.
UnsignedEvents ==
    [sigOK : {FALSE}, type : EventTypes, object : sessions \cup {ForgedSession}]

\* ------------------------------------------------------------------ cart
\* The state of the two cloud functions and of the stores they use.
server == <<products, orders, mail, sessions, req, nreq, hook, faults>>

\* doc.data().images of the product documents: one product has a picture.
ProductImages(p) == IF p = "mat" THEN <<"mat.jpg">> ELSE <<>>

\* allProducts of the storefront page: the active product documents, each with
\* its id.
ShopProducts ==
    {[id |-> p, name |-> Catalog[p].name, price |-> Catalog[p].price,
      category |-> Catalog[p].category, images |-> ProductImages(p)] :
        p \in {q \in ProductIds : Catalog[q].isActive}}

ShopProductIds == {product.id : product \in ShopProducts}

\* The cart line pushed by addItem.
CartLine(product, quantity) ==
    [productId |-> product.id,
     name |-> product.name,
     price |-> product.price,
     quantity |-> quantity,
     category |-> product.category,
     image |-> IF Len(product.images) > 0 THEN product.images[1] ELSE ""]

RECURSIVE LinesText(_)
LinesText(items) ==
    IF Len(items) = 0 THEN <<>>
    ELSE LET i == Head(items)
         IN  <<i.productId, i.name, i.price, i.quantity, i.category, i.image>>
                \o LinesText(Tail(items))

\* JSON.stringify(cart): the text written to the storage, as the values it
\* spells out: the number of lines, the fields of each line, updatedAt.
CartStringify(cart) ==
    [text |-> TRUE,
     json |-> <<Len(cart.items)>> \o LinesText(cart.items) \o <<cart.updatedAt>>]

\* Whether JSON.parse accepts the text.
Parses(s) == Len(s.json) >= 2 /\ Len(s.json) = 2 + 6 * s.json[1]

\* Variant: the parsed lines all carry quantity 1.
CartParseLosesQuantity(s) ==
    [items |-> [k \in 1 .. s.json[1] |->
                    LET b == 1 + 6 * (k - 1)
                    IN  [productId |-> s.json[b + 1], name |-> s.json[b + 2],
                         price |-> s.json[b + 3], quantity |-> 1,
                         category |-> s.json[b + 5], image |-> s.json[b + 6]]],
     updatedAt |-> s.json[Len(s.json)]]

\* JSON.parse(data)
CartParse(s) ==
    [items |-> [k \in 1 .. s.json[1] |->
                    LET b == 1 + 6 * (k - 1)
                    IN  [productId |-> s.json[b + 1], name |-> s.json[b + 2],
                         price |-> s.json[b + 3], quantity |-> s.json[b + 4],
                         category |-> s.json[b + 5], image |-> s.json[b + 6]]],
     updatedAt |-> s.json[Len(s.json)]]

\* getCart() over the storage entry s: an absent entry, and a text that does
\* not parse, give the empty cart.
GetCart(s) ==
    IF s.text /\ Parses(s) THEN CartParse(s)
    ELSE [items |-> <<>>, updatedAt |-> now]

RECURSIVE SumQuantity(_)
SumQuantity(items) ==
    IF Len(items) = 0 THEN 0 ELSE Head(items).quantity + SumQuantity(Tail(items))

RECURSIVE SumPrice(_)
SumPrice(items) ==
    IF Len(items) = 0 THEN 0
    ELSE Head(items).price * Head(items).quantity + SumPrice(Tail(items))

GetTotal(s) == SumPrice(GetCart(s).items)

GetCount(s) == SumQuantity(GetCart(s).items)

\* What updateUI() shows for the storage entry s; the drawer stays as it is.
UpdateUI(s, open) == [count |-> GetCount(s), subtotal |-> GetTotal(s), open |-> open]

\* cart.items.find(i => i.productId === productId): the index of the first
\* line of the product, 0 when there is none.
FindLine(items, productId) ==
    LET ks == {k \in 1 .. Len(items) : items[k].productId = productId}
    IN  IF ks = {} THEN 0 ELSE CHOOSE k \in ks : \A j \in ks : k <= j

\* Variant: addItem pushes a line whether or not the product has one.
AddedItemsAlwaysPushed(items, product, quantity) ==
    Append(items, CartLine(product, quantity))

\* cart.items after the if/else of addItem.
AddedItems(items, product, quantity) ==
    LET k == FindLine(items, product.id)
    IN  IF k # 0 THEN [items EXCEPT ![k].quantity = @ + quantity]
        ELSE Append(items, CartLine(product, quantity))

\* cart.items.filter(i => i.productId !== productId)
RemovedItems(items, productId) ==
    SelectSeq(items, LAMBDA i : i.productId # productId)

\* Variant: only a negative quantity removes the line.
QuantityRemovesNegative(quantity) == quantity < 0

\* `quantity <= 0` in updateQuantity
QuantityRemoves(quantity) == quantity <= 0

\* saveCart(cart), and the state the drawer is left in.
SaveCart(cart, open) ==
    /\ storage' = CartStringify([cart EXCEPT !.updatedAt = now'])
    /\ ui' = UpdateUI(storage', open)
    /\ held' = cart.items

\* The shopper does something on the page, or the page is called back; time
\* passes.  productId holds the product, or the text argument of a call that
\* takes no product.
Called(name, productId, quantity) ==
    /\ Len(calls) < MaxCalls
    /\ calls' = Append(calls, [name |-> name, productId |-> productId, quantity |-> quantity])
    /\ now' = now + 1

\* The body of removeItem(productId).
Remove(productId) ==
    LET cart == GetCart(storage)
    IN  SaveCart([cart EXCEPT !.items = RemovedItems(cart.items, productId)], ui.open)

AddItem(product, quantity) ==
    /\ Called("addItem", product.id, quantity)
    /\ LET cart == GetCart(storage)
       IN  SaveCart([cart EXCEPT !.items = AddedItems(cart.items, product, quantity)], TRUE)
    /\ UNCHANGED <<server, page>>

RemoveItem(productId) ==
    /\ Called("removeItem", productId, 0)
    /\ Remove(productId)
    /\ UNCHANGED <<server, page>>

UpdateQuantity(productId, quantity) ==
    /\ Called("updateQuantity", productId, quantity)
    /\ LET cart == GetCart(storage)
           k == FindLine(cart.items, productId)
       IN  \/ /\ k # 0
              /\ QuantityRemoves(quantity)
              /\ Remove(productId)
           \/ /\ k # 0
              /\ ~QuantityRemoves(quantity)
              /\ SaveCart([cart EXCEPT !.items[k].quantity = quantity], ui.open)
           \/ /\ k = 0
              /\ UNCHANGED <<storage, ui, held>>
    /\ UNCHANGED <<server, page>>

Clear ==
    /\ Called("clear", "", 0)
    /\ storage' = NoText
    /\ ui' = UpdateUI(storage', ui.open)
    /\ held' = <<>>
    /\ UNCHANGED <<server, page>>

\* window.toggleCartDrawer
ToggleCartDrawer ==
    /\ Called("toggleCartDrawer", "", 0)
    /\ ui' = [ui EXCEPT !.open = ~@]
    /\ UNCHANGED <<storage, held>>
    /\ UNCHANGED <<server, page>>

\* currentModalProduct = null
NoProduct ==
    [id |-> "", name |-> "", price |-> 0, category |-> "", images |-> <<>>,
     inventory |-> 0]

\* The page as its scripts and markup start it: no modal product, the checkout
\* button enabled, no request under way.
NoModal == [product |-> NoProduct, quantity |-> ""]

ButtonReady == [label |-> "Checkout", disabled |-> FALSE]

\* No response of createCheckoutSession has been handled.
NoResponse == [kind |-> "none", ok |-> FALSE, error |-> "", sessionUrl |-> ""]

NoPending == [active |-> FALSE, originalText |-> "", response |-> NoResponse]

\* The page is loaded again: the script starts over with the drawer closed and
\* runs updateUI() on DOMContentLoaded.
Reload ==
    /\ Called("reload", "", 0)
    /\ location = "shop"
    /\ ui' = UpdateUI(storage, FALSE)
    /\ modal' = NoModal
    /\ btn' = ButtonReady
    /\ pending' = NoPending
    /\ UNCHANGED <<storage, held, sent, alerts, location>>
    /\ UNCHANGED server

Init ==
    /\ products = Catalog
    /\ orders = {}
    /\ mail = {}
    /\ sessions = {}
    /\ req = Idle
    /\ nreq = 0
    /\ hook = [d \in 1 .. MaxDeliveries |-> HookIdle]
    /\ faults = 0
    /\ storage = NoText
    /\ ui = [count |-> 0, subtotal |-> 0, open |-> FALSE]
    /\ held = <<>>
    /\ calls = <<>>
    /\ now = 0
    /\ modal = NoModal
    /\ btn = ButtonReady
    /\ pending = NoPending
    /\ sent = <<>>
    /\ alerts = <<>>
    /\ location = "shop"

Next ==
    \/ \E r \in ShopRequests : CheckoutStart(r.method, r.body)
    \/ CheckoutFetch
    \/ CheckoutCreate
    \/ \E e \in SignedEvents \cup UnsignedEvents :
            WebhookReceive(MaxDeliveries, e.sigOK, e.type, e.object)
    \/ \E d \in 1 .. MaxDeliveries : TxnGet(d)
    \/ \E d \in 1 .. MaxDeliveries : TxnCommit(d)
    \/ \E d \in 1 .. MaxDeliveries : MailConfirmation(d)
    \/ \E d \in 1 .. MaxDeliveries : DigitalGet(d)
    \/ \E d \in 1 .. MaxDeliveries : MailLinks(d)
    \/ \E d \in 1 .. MaxDeliveries : MarkDelivered(d)

Spec == Init /\ [][Next]_vars

\* The same handlers, driven by every request a client can send, beside one
\* delivery of an event of the payment provider.
NextValidate ==
    \/ \E r \in Requests : CheckoutStart(r.method, r.body)
    \/ CheckoutFetch
    \/ CheckoutCreate
    \/ \E e \in SignedEvents : WebhookReceive(1, e.sigOK, e.type, e.object)
    \/ TxnGet(1)
    \/ TxnCommit(1)
    \/ MailConfirmation(1)
    \/ DigitalGet(1)
    \/ MailLinks(1)
    \/ MarkDelivered(1)

SpecValidate == Init /\ [][NextValidate]_vars

\* One delivery of an event of the payment provider for a session of the
\* storefront.  An invocation of the handler runs on until it has responded.
NextLive ==
    \/ \E r \in ShopRequests : CheckoutStart(r.method, r.body)
    \/ CheckoutFetch
    \/ CheckoutCreate
    \/ \E e \in SignedEvents : WebhookReceive(1, e.sigOK, e.type, e.object)
    \/ TxnGet(1)
    \/ TxnCommit(1)
    \/ MailConfirmation(1)
    \/ DigitalGet(1)
    \/ MailLinks(1)
    \/ MarkDelivered(1)

SpecLive ==
    /\ Init
    /\ [][NextLive]_vars
    /\ WF_vars(TxnGet(1))
    /\ WF_vars(TxnCommit(1))
    /\ WF_vars(MailConfirmation(1))
    /\ WF_vars(DigitalGet(1))
    /\ WF_vars(MailLinks(1))
    /\ WF_vars(MarkDelivered(1))

\* The cart module of the storefront page, driven by the shopper.
NextCart ==
    \/ \E product \in ShopProducts, quantity \in 1 .. MaxQty : AddItem(product, quantity)
    \/ \E productId \in ShopProductIds : RemoveItem(productId)
    \/ \E productId \in ShopProductIds, quantity \in 0 .. MaxQty :
            UpdateQuantity(productId, quantity)
    \/ Clear
    \/ ToggleCartDrawer
    \/ Reload

SpecCart == Init /\ [][NextCart]_vars

\* A storage entry whose getItem throws: the browser denies access to it.
Unreadable == [text |-> FALSE, json |-> <<"SecurityError">>]

\* Texts JSON.parse rejects: an object cut short, a cart text cut after its
\* first fields, a text without any value.
InvalidTexts ==
    {[text |-> TRUE, json |-> <<"{">>],
     [text |-> TRUE, json |-> <<1, "mat", "Yoga Mat">>],
     [text |-> TRUE, json |-> <<>>]}

\* Texts saveCart has written: a cart of one line.
CartTexts ==
    {CartStringify([items |-> <<CartLine(product, quantity)>>, updatedAt |-> 0]) :
        product \in ShopProducts, quantity \in 1 .. MaxQty}

\* What the page may find in the storage when it is loaded.
StoredTexts == {NoText, Unreadable} \cup InvalidTexts \cup CartTexts

\* The exceptions raised inside the try block of getCart over entry s.
Raised(s) ==
    IF s = Unreadable THEN {"SecurityError"}
    ELSE IF s.text /\ ~Parses(s) THEN {"SyntaxError"}
    ELSE {}

\* Variant: the catch clause handles the parse error only.
GetCartCatchesSyntaxOnly(e) == e = "SyntaxError"

\* `catch {` of getCart: the clause names no exception type.
GetCartCatches(e) == TRUE

\* getCart() over entry s ends with an exception.
GetCartThrows(s) == \E e \in Raised(s) : ~GetCartCatches(e)

\* The page is loaded over whatever the storage holds.
InitStorage ==
    /\ products = Catalog
    /\ orders = {}
    /\ mail = {}
    /\ sessions = {}
    /\ req = Idle
    /\ nreq = 0
    /\ hook = [d \in 1 .. MaxDeliveries |-> HookIdle]
    /\ faults = 0
    /\ now = 0
    /\ storage \in StoredTexts
    /\ ui = UpdateUI(storage, FALSE)
    /\ held = <<>>
    /\ calls = <<>>
    /\ modal = NoModal
    /\ btn = ButtonReady
    /\ pending = NoPending
    /\ sent = <<>>
    /\ alerts = <<>>
    /\ location = "shop"

NextStorage ==
    \/ Reload
    \/ ToggleCartDrawer

SpecStorage == InitStorage /\ [][NextStorage]_vars

\* ------------------------------------------------------------ storefront
\* The largest quantity the modal lets the shopper choose.
ModalMaxQuantity == 99

\* allProducts as loadProducts fills it from the products collection: the
\* active documents, each with its id.
LoadedProducts ==
    {[id |-> p, name |-> products[p].name, price |-> products[p].price,
      category |-> products[p].category, images |-> ProductImages(p),
      inventory |-> products[p].inventory] :
        p \in {q \in DOMAIN products : products[q].isActive}}

\* `el.textContent = qty`: the number as the text the element shows.
QuantityText(qty) == ToString(qty)

\* parseInt(text) of a text the page wrote.
ParseInt(text) == CHOOSE n \in -1 .. ModalMaxQuantity : ToString(n) = text

\* parseInt(document.getElementById('modalQuantity')?.textContent || '1')
ModalQuantityRead(text) == IF text = "" THEN ParseInt("1") ELSE ParseInt(text)

\* The quantity updateModalQuantity(delta) writes back for the product shown.
ModalQuantityAfter(product, text, delta) ==
    LET q0 == ParseInt(text) + delta
        q1 == IF q0 < 1 THEN 1 ELSE q0
        q2 == IF q1 > ModalMaxQuantity THEN ModalMaxQuantity ELSE q1
    IN  IF product.category = "physical" /\ product.inventory # -1 /\ q2 > product.inventory
        THEN product.inventory
        ELSE q2

\* window.addToCartFromShop
AddToCartFromShop(productId) ==
    \E product \in LoadedProducts :
        /\ product.id = productId
        /\ AddItem(product, 1)

\* window.openProductModal
OpenProductModal(productId) ==
    /\ Called("openProductModal", productId, 0)
    /\ \E product \in LoadedProducts :
            /\ product.id = productId
            /\ modal' = [product |-> product, quantity |-> QuantityText(1)]
    /\ UNCHANGED <<storage, ui, held, btn, pending, sent, alerts, location>>
    /\ UNCHANGED server

\* window.closeProductModal
CloseProductModal ==
    /\ Called("closeProductModal", "", 0)
    /\ modal' = [modal EXCEPT !.product = NoProduct]
    /\ UNCHANGED <<storage, ui, held, btn, pending, sent, alerts, location>>
    /\ UNCHANGED server

\* window.updateModalQuantity, from the - and + buttons of the open modal.
UpdateModalQuantity(delta) ==
    /\ modal.product # NoProduct
    /\ Called("updateModalQuantity", modal.product.id, delta)
    /\ modal' = [modal EXCEPT !.quantity =
                    QuantityText(ModalQuantityAfter(modal.product, modal.quantity, delta))]
    /\ UNCHANGED <<storage, ui, held, btn, pending, sent, alerts, location>>
    /\ UNCHANGED server

\* window.addToCartFromModal
AddToCartFromModal ==
    /\ modal.product # NoProduct
    /\ AddItem(modal.product, ModalQuantityRead(modal.quantity))

\* The - and + buttons and the Remove button renderDrawer puts beside the
\* k-th line of the cart.
DrawerQuantity(k, delta) ==
    /\ ui.open
    /\ k \in 1 .. Len(GetCart(storage).items)
    /\ LET item == GetCart(storage).items[k]
       IN  UpdateQuantity(item.productId, item.quantity + delta)

DrawerRemove(k) ==
    /\ ui.open
    /\ k \in 1 .. Len(GetCart(storage).items)
    /\ RemoveItem(GetCart(storage).items[k].productId)

\* The stock the storefront may find for the finite product: what is left
\* after none, some or all of its units were sold.
InitShopper ==
    /\ products \in {[Catalog EXCEPT !["mat"].inventory = left] : left \in 0 .. InitStock}
    /\ orders = {}
    /\ mail = {}
    /\ sessions = {}
    /\ req = Idle
    /\ nreq = 0
    /\ hook = [d \in 1 .. MaxDeliveries |-> HookIdle]
    /\ faults = 0
    /\ now = 0
    /\ storage = NoText
    /\ ui = UpdateUI(storage, FALSE)
    /\ held = <<>>
    /\ calls = <<>>
    /\ modal = NoModal
    /\ btn = ButtonReady
    /\ pending = NoPending
    /\ sent = <<>>
    /\ alerts = <<>>
    /\ location = "shop"

NextShopper ==
    \/ \E productId \in ProductIds : AddToCartFromShop(productId)
    \/ \E productId \in ProductIds : OpenProductModal(productId)
    \/ CloseProductModal
    \/ \E delta \in {-1, 1} : UpdateModalQuantity(delta)
    \/ AddToCartFromModal
    \/ \E k \in 1 .. MaxCalls, delta \in {-1, 1} : DrawerQuantity(k, delta)
    \/ \E k \in 1 .. MaxCalls : DrawerRemove(k)

SpecShopper == InitShopper /\ [][NextShopper]_vars

\* --------------------------------------------------------------- checkout
\* Variant: the body carries the cart's lines whole.
CheckoutBodyWholeLines(cart) ==
    [items |-> cart.items,
     successUrl |-> "?checkout=success",
     cancelUrl |-> "?checkout=cancelled#shop"]

\* The body initiateCheckout posts for the cart it has read.
CheckoutBody(cart) ==
    [items |-> [k \in 1 .. Len(cart.items) |->
                    [productId |-> cart.items[k].productId,
                     quantity |-> cart.items[k].quantity]],
     successUrl |-> "?checkout=success",
     cancelUrl |-> "?checkout=cancelled#shop"]

\* Variant: the checkout goes on whatever the cart holds.
CheckoutProceedsAlways(cart) == TRUE

\* `if (cart.items.length === 0) return;`
CheckoutProceeds(cart) == Len(cart.items) # 0

\* What may come back for the request: the fetch rejects, a response that is
\* not ok with or without an error in its body, an ok response whose body does
\* not parse, one without a sessionUrl, and one with the provider's URL.
Responses ==
    {[kind |-> "rejected", ok |-> FALSE, error |-> "Failed to fetch", sessionUrl |-> ""],
     [kind |-> "response", ok |-> FALSE, error |-> "Yoga Mat only has 0 left in stock", sessionUrl |-> ""],
     [kind |-> "response", ok |-> FALSE, error |-> "", sessionUrl |-> ""],
     [kind |-> "unparsed", ok |-> TRUE, error |-> "Unexpected token", sessionUrl |-> ""],
     [kind |-> "response", ok |-> TRUE, error |-> "", sessionUrl |-> ""],
     [kind |-> "response", ok |-> TRUE, error |-> "", sessionUrl |-> "https://pay/session"]}

\* Variant: every ok response sends the browser to its sessionUrl.
NavigatesWhenOk(r) == r.kind = "response" /\ r.ok

\* The response takes the browser to the payment provider.
Navigates(r) == r.kind = "response" /\ r.ok /\ r.sessionUrl # ""

\* error.message in the catch block.
ErrorMessage(r) ==
    IF r.kind = "rejected" \/ r.kind = "unparsed" THEN r.error
    ELSE IF ~r.ok THEN (IF r.error # "" THEN r.error ELSE "Checkout failed")
    ELSE "No checkout URL received"

\* The text given to alert().
AlertText(message) ==
    [text |-> "Something went wrong with checkout. Please try again.", message |-> message]

\* window.initiateCheckout up to its fetch, from the enabled checkout button.
InitiateCheckout ==
    /\ location = "shop"
    /\ ~btn.disabled
    /\ Called("initiateCheckout", "", 0)
    /\ LET cart == GetCart(storage)
       IN  IF CheckoutProceeds(cart)
           THEN /\ btn' = [label |-> "Processing...", disabled |-> TRUE]
                /\ pending' = [active |-> TRUE, originalText |-> btn.label, response |-> NoResponse]
                /\ sent' = Append(sent, CheckoutBody(cart))
           ELSE UNCHANGED <<btn, pending, sent>>
    /\ UNCHANGED <<storage, ui, held, modal, alerts, location>>
    /\ UNCHANGED server

\* The rest of initiateCheckout, once the fetch has settled with r.
CheckoutResponse(r) ==
    /\ location = "shop"
    /\ pending.active
    /\ Called("checkoutResponse", r.kind, 0)
    /\ pending' = [active |-> FALSE, originalText |-> "", response |-> r]
    /\ IF Navigates(r)
       THEN /\ location' = "provider"
            /\ UNCHANGED <<btn, alerts>>
       ELSE /\ alerts' = Append(alerts, AlertText(ErrorMessage(r)))
            /\ btn' = [label |-> pending.originalText, disabled |-> FALSE]
            /\ UNCHANGED location
    /\ UNCHANGED <<storage, ui, held, modal, sent>>
    /\ UNCHANGED server

\* Variant: any return from the payment provider clears the cart.
ReturnClearsAlways(result) == TRUE

\* `params.get('checkout') === 'success'`
ReturnClears(result) == result = "success"

\* The payment provider sends the browser back to successUrl or cancelUrl:
\* the page loads, runs updateUI() and handleCheckoutReturn().
CheckoutReturn(result) ==
    /\ location = "provider"
    /\ Called("checkoutReturn", result, 0)
    /\ location' = "shop"
    /\ IF ReturnClears(result)
       THEN storage' = NoText /\ held' = <<>>
       ELSE UNCHANGED <<storage, held>>
    /\ ui' = UpdateUI(storage', FALSE)
    /\ modal' = NoModal
    /\ btn' = ButtonReady
    /\ pending' = NoPending
    /\ UNCHANGED <<sent, alerts>>
    /\ UNCHANGED server

NextCheckout ==
    \/ \E product \in ShopProducts : AddItem(product, 1)
    \/ \E productId \in ShopProductIds : RemoveItem(productId)
    \/ \E productId \in ShopProductIds, quantity \in {0, MaxQty} :
            UpdateQuantity(productId, quantity)
    \/ Clear
    \/ Reload
    \/ InitiateCheckout
    \/ \E r \in Responses : CheckoutResponse(r)
    \/ \E result \in {"success", "cancelled"} : CheckoutReturn(result)

SpecCheckout == Init /\ [][NextCheckout]_vars

\* ------------------------------------------------------------------ admin
\* What the admin may leave in the inventory field of the product editor:
\* nothing, the unlimited sentinel, or a stock from 0 up.
InventoryEntries == {""} \cup {ToString(n) : n \in -1 .. InitStock + 1}

\* `parseInt(document.getElementById('productInventory').value) || -1`
SavedInventory(text) ==
    IF text = "" THEN -1
    ELSE IF ParseInt(text) = 0 THEN -1
    ELSE ParseInt(text)

\* window.saveProduct for the product under edit: the editor's fields, as
\* openProductEditor filled them from the document, with the inventory field
\* as the admin left it.
SaveProduct(editId, text) ==
    /\ Called("saveProduct", editId, text)
    /\ editId \in DOMAIN products
    /\ products' = [products EXCEPT ![editId].inventory = SavedInventory(text),
                                    ![editId].version = @ + 1]
    /\ UNCHANGED <<orders, mail, sessions, req, nreq, hook, faults>>
    /\ UNCHANGED <<storage, ui, held, page>>

\* The storefront's request for one unit of the finite product.
MatRequests ==
    {r \in ShopRequests : \A k \in 1 .. Len(r.body.items.list) :
                                r.body.items.list[k].productId = "mat"}

\* The admin edits the stock of the finite product while the storefront sends
\* requests for it.
NextAdmin ==
    \/ \E text \in InventoryEntries : SaveProduct("mat", text)
    \/ \E r \in MatRequests : CheckoutStart(r.method, r.body)
    \/ CheckoutFetch
    \/ CheckoutCreate

SpecAdmin == Init /\ [][NextAdmin]_vars

\* ------------------------------------------------------------ properties
Deliveries == 1 .. MaxDeliveries

\* Delivery d is the handling of a verified checkout.session.completed event.
Completed(d) ==
    /\ hook[d].pc # "idle"
    /\ hook[d].sigOK
    /\ hook[d].type = "checkout.session.completed"

\* Delivery d has ended without any of its operations throwing.
EndedClean(d) == hook[d].pc = "done" /\ ~hook[d].failed

\* Delivery d has added its Order and is past its inventory transactions.
PastInventory(d) ==
    /\ Completed(d)
    /\ hook[d].order # 0
    /\ \/ hook[d].pc \in {"mail", "digitalGet", "mailLinks", "markDelivered"}
       \/ EndedClean(d)

OrdersOf(sid) == {o \in orders : o.stripeSessionId = sid}

\* Every delivery so far is a verified completed-checkout event for session
\* sid that has ended cleanly.
OnlyDeliveriesOf(sid) ==
    \A d \in Deliveries :
        hook[d].pc # "idle" => Completed(d) /\ EndedClean(d) /\ hook[d].object.id = sid

\* Every delivery so far is a verified completed-checkout event, and no two of
\* them are for the same session.
DistinctSessionsOnly ==
    /\ \A d \in Deliveries : hook[d].pc # "idle" => Completed(d)
    /\ \A d, e \in Deliveries :
          (d # e /\ hook[d].pc # "idle" /\ hook[e].pc # "idle")
              => hook[d].object.id # hook[e].object.id

\* The inventory of product pid after one reconciliation of the items, from
\* inventory inv: one decrement per physical line of a finite-inventory product.
RECURSIVE DecrementedOnce(_, _, _)
DecrementedOnce(inv, items, pid) ==
    IF items = <<>> THEN inv
    ELSE LET item == Head(items)
             after == IF item.productId = pid /\ item.category = "physical" /\ inv # Unlimited
                      THEN inv - item.quantity
                      ELSE inv
         IN  DecrementedOnce(after, Tail(items), pid)

\* The total quantity of product pid over the physical lines of the items.
RECURSIVE Purchased(_, _)
Purchased(items, pid) ==
    IF items = <<>> THEN 0
    ELSE (IF Head(items).productId = pid /\ Head(items).category = "physical"
          THEN Head(items).quantity ELSE 0) + Purchased(Tail(items), pid)

RECURSIVE PurchasedBy(_, _)
PurchasedBy(ds, pid) ==
    IF ds = {} THEN 0
    ELSE LET d == CHOOSE x \in ds : TRUE
         IN  Purchased(OrderItemsOf(hook[d]), pid) + PurchasedBy(ds \ {d}, pid)

FiniteProducts == {p \in ProductIds : Catalog[p].inventory >= 0}

\* C1: once the verified checkout.session.completed event of a session has been
\* handled to its end, however often it is delivered, the orders collection
\* holds exactly one Order with that stripeSessionId.
C1_OneOrderPerSession ==
    \A d \in Deliveries :
        (Completed(d) /\ EndedClean(d))
            => Cardinality(OrdersOf(hook[d].object.id)) = 1

\* C2: when the same verified event has been delivered once or more often and
\* nothing else has been reconciled, each finite-inventory product holds the
\* inventory that one delivery leaves: the second delivery decrements nothing.
C2_OneDecrementPerItem ==
    \A s \in sessions :
        (OnlyDeliveriesOf(s.id) /\ \E d \in Deliveries : hook[d].pc # "idle")
            => \A p \in FiniteProducts :
                  products[p].inventory =
                      DecrementedOnce(Catalog[p].inventory,
                                      ParseOrderItems(s.metadata.orderItems), p)

\* C3: while the only deliveries are verified completed-checkout events of
\* different sessions, each buying one unit on one line, a product whose
\* inventory started finite never has an inventory below 0.
C3_InventoryFloor ==
    (/\ DistinctSessionsOnly
     /\ \A d \in Deliveries :
           hook[d].pc # "idle" =>
               /\ Len(OrderItemsOf(hook[d])) = 1
               /\ OrderItemsOf(hook[d])[1].quantity = 1)
        => \A p \in FiniteProducts : products[p].inventory >= 0

\* C4: when reconciliations of different sessions have all ended without an
\* error, the inventory of a finite-inventory product is its initial inventory
\* less every quantity purchased of it.
C4_NoLostDecrement ==
    (/\ DistinctSessionsOnly
     /\ \A d \in Deliveries : hook[d].pc # "idle" => EndedClean(d))
        => \A p \in FiniteProducts :
              products[p].inventory =
                  Catalog[p].inventory
                      - PurchasedBy({d \in Deliveries : hook[d].pc # "idle"}, p)

\* C5: no step changes the document of a product whose inventory is -1; the
\* inventory of an unlimited product stays -1 through every reconciliation.
C5_UnlimitedNeverDecremented ==
    [][\A p \in ProductIds :
          products[p].inventory = Unlimited => products'[p] = products[p]]_vars

\* A reconciliation of an order with a line of the unlimited physical product
\* is past its transactions.
C5_Witness ==
    \E d \in Deliveries :
        /\ PastInventory(d)
        /\ \E k \in 1 .. Len(OrderItemsOf(hook[d])) :
              /\ OrderItemsOf(hook[d])[k].productId = "oil"
              /\ OrderItemsOf(hook[d])[k].category = "physical"
        /\ products["oil"].inventory = Unlimited

\* C6: the session created for an accepted request has, line by line, the name
\* and price of the product document read for that line during the request,
\* in its payment line items and in its embedded order items, whatever price
\* the client sent.
C6_PriceIntegrity ==
    (req.pc = "done" /\ req.status = 200)
        => \E s \in sessions :
              /\ s.id = req.id
              /\ Len(s.line_items) = Len(req.body.items.list)
              /\ Len(ParseOrderItems(s.metadata.orderItems)) = Len(req.body.items.list)
              /\ Len(req.fetched) = Len(req.body.items.list)
              /\ \A k \in 1 .. Len(req.body.items.list) :
                    /\ s.line_items[k].unit_amount = req.fetched[k].price
                    /\ s.line_items[k].name = req.fetched[k].name
                    /\ ParseOrderItems(s.metadata.orderItems)[k].price = req.fetched[k].price
                    /\ ParseOrderItems(s.metadata.orderItems)[k].name = req.fetched[k].name
                    /\ req.fetched[k].price = Catalog[req.body.items.list[k].productId].price

\* A request carrying a forged price that differs from the catalog's has been
\* accepted.
C6_Witness ==
    /\ req.pc = "done"
    /\ req.status = 200
    /\ \E k \in 1 .. Len(req.body.items.list) :
          /\ req.body.items.list[k].price = ForgedPrice
          /\ Catalog[req.body.items.list[k].productId].price # ForgedPrice

\* C7: the step that receives a request whose signature does not verify ends
\* the handler with status 400 and changes no order, product or mail.
C7_BadSignatureRejected ==
    [][\A d \in Deliveries :
          (hook[d].pc = "idle" /\ hook'[d].pc # "idle" /\ ~hook'[d].sigOK)
              => /\ hook'[d].pc = "done"
                 /\ hook'[d].status = 400
                 /\ UNCHANGED <<orders, products, mail>>]_vars

\* An unverified request claiming to be a completed checkout was answered 400.
C7_Witness ==
    \E d \in Deliveries :
        /\ hook[d].pc = "done"
        /\ ~hook[d].sigOK
        /\ hook[d].type = "checkout.session.completed"
        /\ hook[d].status = 400

\* C8: a delivery in which an operation of the reconciliation threw is
\* answered with a 5xx status.
C8_ProcessingFailureSignalled ==
    \A d \in Deliveries :
        (hook[d].pc = "done" /\ hook[d].failed) => hook[d].status >= 500

\* C9: the step that receives a verified event of a type other than
\* checkout.session.completed ends the handler with the {received: true}
\* acknowledgement and changes no order, product or mail.
C9_OtherEventsAcknowledged ==
    [][\A d \in Deliveries :
          (/\ hook[d].pc = "idle"
           /\ hook'[d].pc # "idle"
           /\ hook'[d].sigOK
           /\ hook'[d].type # "checkout.session.completed")
              => /\ hook'[d].pc = "done"
                 /\ hook'[d].status = 200
                 /\ ~hook'[d].failed
                 /\ UNCHANGED <<orders, products, mail>>]_vars

\* A verified payment_intent.payment_failed event has been acknowledged.
C9_Witness ==
    \E d \in Deliveries :
        /\ hook[d].pc = "done"
        /\ hook[d].sigOK
        /\ hook[d].type = "payment_intent.payment_failed"
        /\ hook[d].status = 200

\* The request's items field is missing, not a list or empty, or one of its
\* redirect URLs is missing.
MalformedRequest(body) ==
    \/ body.items.kind \in {"missing", "notlist"}
    \/ body.items.list = <<>>
    \/ body.successUrl = ""
    \/ body.cancelUrl = ""

\* C10: a POST whose items are missing, not a list or empty, or that lacks a
\* redirect URL, is answered 400 with no product read issued and no payment
\* session created.
C10_MalformedRejectedEarly ==
    (req.pc # "idle" /\ req.method = "POST" /\ MalformedRequest(req.body))
        => /\ req.pc = "done"
           /\ req.status = 400
           /\ req.reads = 0
           /\ \A s \in sessions : s.id # req.id

\* A request with a well-formed item and no cancelUrl has been rejected.
C10_Witness ==
    /\ req.pc = "done"
    /\ req.method = "POST"
    /\ req.body.items.kind = "list"
    /\ Len(req.body.items.list) = 1
    /\ req.body.successUrl # ""
    /\ req.body.cancelUrl = ""
    /\ req.status = 400
    /\ req.reads = 0

\* The request item is malformed: no productId, or a quantity that is missing
\* or below 1.
MalformedItem(item) == item.productId = "" \/ item.quantity < 1

\* The request item names no product of the catalog, or a deactivated one.
UnavailableItem(item) ==
    \/ item.productId \notin ProductIds
    \/ ~Catalog[item.productId].isActive

\* The product document does not hold the requested quantity.
Insufficient(product, quantity) ==
    /\ product.category = "physical"
    /\ product.inventory # -1
    /\ product.inventory < quantity

\* The answer to a POST whose body passed the two body checks and during which
\* no operation threw.
Validated(r) ==
    /\ r.pc = "done"
    /\ r.method = "POST"
    /\ ~MalformedRequest(r.body)
    /\ r.status # 500

\* C11: a request with an item that is malformed, unknown, inactive or beyond
\* the inventory read for it ends with status 400 and without a payment
\* session; and no step of createCheckoutSession, on any path, changes the
\* products or orders collection.
C11_AllOrNothing ==
    [][(req' # req) =>
          /\ UNCHANGED <<products, orders>>
          /\ (Validated(req') /\ \E k \in 1 .. Len(req'.body.items.list) :
                    \/ MalformedItem(req'.body.items.list[k])
                    \/ UnavailableItem(req'.body.items.list[k]))
                => (req'.status = 400 /\ \A s \in sessions' : s.id # req'.id)
          /\ (req.pc = "fetch" /\ faults' = faults
                /\ req.body.items.list[req.i].productId \in ProductIds
                /\ Insufficient(products[req.body.items.list[req.i].productId],
                                req.body.items.list[req.i].quantity))
                => (req'.pc = "done" /\ req'.status = 400)
          /\ (req'.pc = "done" /\ req'.status # 200)
                => \A s \in sessions' : s.id # req'.id]_vars

\* A request whose first item is valid and whose second names the deactivated
\* product has been rejected after two reads, with no session.
C11_Witness ==
    /\ req.pc = "done"
    /\ req.status = 400
    /\ req.reads = 2
    /\ Len(req.body.items.list) = 2
    /\ req.body.items.list[2].productId = "retired"
    /\ \A s \in sessions : s.id # req.id

\* C12: the step in which the product read of an item returns an existing,
\* active product rejects the item for its inventory exactly when the product
\* is physical, its inventory is not -1 and is below the quantity; the message
\* then names the product and the inventory left.
C12_InventoryRejection ==
    [][(req.pc = "fetch" /\ req' # req /\ faults' = faults
            /\ req.body.items.list[req.i].productId \in DOMAIN products
            /\ products[req.body.items.list[req.i].productId].isActive) =>
          LET item == req.body.items.list[req.i]
              product == products[item.productId]
              rejected == /\ req'.pc = "done"
                          /\ req'.status = 400
                          /\ req'.error.msg = "only has left in stock"
          IN  /\ rejected <=> Insufficient(product, item.quantity)
              /\ rejected => /\ req'.error.name = product.name
                             /\ req'.error.left = product.inventory
              /\ ~rejected => /\ req'.status # 400 \/ req'.i = req.i + 1
                              /\ Len(req'.fetched) = Len(req.fetched) + 1]_vars

\* The finite-inventory product has been requested beyond its inventory and
\* the answer names it and the inventory left.
C12_Witness ==
    /\ req.pc = "done"
    /\ req.status = 400
    /\ req.error.msg = "only has left in stock"
    /\ req.error.name = "Yoga Mat"
    /\ req.error.left >= 0
    /\ req.body.items.list[Len(req.fetched) + 1].quantity = req.error.left + 1

\* C13: a created session collects a shipping address exactly when one of its
\* items is of a physical product.
C13_ShippingIffPhysical ==
    \A s \in sessions :
        s.shipping_address_collection <=>
            \E k \in 1 .. Len(s.line_items) :
                Catalog[s.line_items[k].firebaseProductId].category = "physical"

\* A session without a physical item and a session with a physical and a
\* digital item exist.
C13_Witness ==
    /\ \E s \in sessions : ~s.shipping_address_collection /\ Len(s.line_items) > 0
    /\ \E s \in sessions :
          /\ s.shipping_address_collection
          /\ \E k \in 1 .. Len(s.line_items) :
                Catalog[s.line_items[k].firebaseProductId].category = "digital"

\* The order holds, entry by entry, what createCheckoutSession embedded in the
\* session and priced its payment line items with.
FromSnapshot(o, s) ==
    /\ s.id = o.stripeSessionId
    /\ s.metadata.orderItems.text
    /\ o.items = s.metadata.orderItems.json
    /\ Len(o.items) = Len(s.line_items)
    /\ \A k \in 1 .. Len(o.items) :
          /\ o.items[k].productId = s.line_items[k].firebaseProductId
          /\ o.items[k].name = s.line_items[k].name
          /\ o.items[k].price = s.line_items[k].unit_amount
          /\ o.items[k].quantity = s.line_items[k].quantity
          /\ o.items[k].category = Catalog[o.items[k].productId].category

\* C14: every Order has status paid and the items, in order, of the snapshot
\* embedded in its session by createCheckoutSession; an Order is created with
\* digitalDelivered false.
C14_OrderFromSnapshot ==
    [][\A o \in orders' :
          /\ o.status = "paid"
          /\ \E s \in sessions' : FromSnapshot(o, s)
          /\ (\A x \in orders : x.id # o.id) => ~o.digitalDelivered]_vars

\* An Order of two items has been created from a session of two items.
C14_Witness ==
    \E o \in orders :
        /\ Len(o.items) = 2
        /\ o.items[1].productId # o.items[2].productId
        /\ \E s \in sessions : FromSnapshot(o, s)

\* The download-links message queued for order o.
LinksMailOf(o) ==
    {m \in mail : m.order = o.id /\ m.subject = "Your Digital Downloads"}

\* Order o has a digital item whose product document carries a download URL.
HasDownload(o) ==
    \E k \in 1 .. Len(o.items) :
        /\ o.items[k].category = "digital"
        /\ o.items[k].productId \in DOMAIN products
        /\ products[o.items[k].productId].digitalFileUrl # ""

\* C15: an Order has digitalDelivered = true only if it contains a digital
\* item and its download-links message has been queued; an Order none of whose
\* digital items has a download URL, and an Order whose download-links message
\* failed to be queued, keep digitalDelivered = false.
C15_DeliveredOnlyAfterLinks ==
    /\ \A o \in orders :
            o.digitalDelivered =>
                /\ \E k \in 1 .. Len(o.items) : o.items[k].category = "digital"
                /\ LinksMailOf(o) # {}
                /\ HasDownload(o)
    /\ \A d \in Deliveries :
            (hook[d].pc = "done" /\ hook[d].failed /\ hook[d].at = "mailLinks") =>
                \A o \in orders : o.id = hook[d].order => ~o.digitalDelivered

\* An order holding a digital item with a download URL and one without has
\* been marked delivered after its download-links message was queued.
C15_Witness ==
    \E o \in orders :
        /\ o.digitalDelivered
        /\ LinksMailOf(o) # {}
        /\ \E k \in 1 .. Len(o.items) : o.items[k].productId = "audio"
        /\ \E k \in 1 .. Len(o.items) : o.items[k].productId = "ebook"

\* Delivery d ends in this step because the operation at one of the given
\* positions threw.
ThrowsAt(d, positions) ==
    /\ hook[d].pc \in positions
    /\ hook'[d].pc = "done"
    /\ hook'[d].failed

\* The step deletes no Order and leaves every product's inventory as it was.
NothingUndone ==
    /\ \A o \in orders : \E x \in orders' : x.id = o.id /\ x.status = o.status
    /\ \A p \in DOMAIN products :
            /\ p \in DOMAIN products'
            /\ products'[p].inventory = products[p].inventory

\* Order of delivery d, as the store holds it after the step.
OrderKept(d) == \E o \in orders' : o.id = hook[d].order /\ o.status = "paid"

\* C16: when queuing the confirmation message or the download-links message
\* fails, the Order of the session stays persisted and no inventory decrement
\* is taken back, in that step and in every later one of the delivery.
C16_MailFailureKeepsOrder ==
    [][\A d \in Deliveries :
          /\ ThrowsAt(d, {"mail", "mailLinks"}) => (NothingUndone /\ OrderKept(d))
          /\ (hook[d].pc = "done" /\ hook[d].failed /\ hook[d].at \in {"mail", "mailLinks"})
                => \A o \in orders : o.id = hook[d].order =>
                        \E x \in orders' : x.id = o.id /\ x.status = "paid"]_vars

\* The confirmation of the only delivery threw after the Order was added and
\* the last Yoga Mat was taken.
C16_Witness ==
    /\ hook[1].pc = "done" /\ hook[1].failed /\ hook[1].at = "mail"
    /\ hook[2].pc = "idle"
    /\ \E o \in orders : o.id = hook[1].order /\ o.status = "paid"
                            /\ \E k \in 1 .. Len(o.items) : o.items[k].productId = "mat"
    /\ products["mat"].inventory = InitStock - 1
    /\ mail = {}

\* C17: when the inventory transaction of one item fails, the Order already
\* created stays persisted with status paid and the decrements committed for
\* the other products of the order stay committed.
C17_TxnFailureKeepsOrder ==
    [][\A d \in Deliveries :
          ThrowsAt(d, {"txnGet", "txnCommit"}) =>
              /\ NothingUndone
              /\ OrderKept(d)]_vars

\* The transaction of the second item of the only delivery threw after the
\* transaction of the first had taken the last Yoga Mat.
C17_Witness ==
    /\ hook[1].pc = "done" /\ hook[1].failed /\ hook[1].at \in {"txnGet", "txnCommit"}
    /\ hook[2].pc = "idle"
    /\ \E o \in orders : /\ o.id = hook[1].order /\ o.status = "paid"
                            /\ Len(o.items) = 2
                            /\ o.items[1].productId = "mat"
                            /\ o.items[2].productId = "oil"
    /\ products["mat"].inventory = InitStock - 1

\* The lines of the persisted cart before and after the step.
LinesBefore == GetCart(storage).items

LinesAfter == GetCart(storage').items

\* The step is the call `name` of the cart module; its arguments.
Calls(name) == Len(calls') = Len(calls) + 1 /\ calls'[Len(calls')].name = name

Arg == calls'[Len(calls')]

\* The sequence without its k-th element.
Without(items, k) == SubSeq(items, 1, k - 1) \o SubSeq(items, k + 1, Len(items))

\* C18: addItem(product, q) on a cart that has a line of the product raises
\* that line's quantity by q and adds no line; otherwise it appends one line
\* with the product's id, name, price and category and quantity q.  The other
\* lines are unchanged and the result is what the storage holds.
C18_AddItem ==
    [][Calls("addItem") =>
        LET product == CHOOSE x \in ShopProducts : x.id = Arg.productId
            q == Arg.quantity
            n == Len(LinesBefore)
        IN  /\ storage'.text
            /\ IF \E k \in 1 .. n : LinesBefore[k].productId = product.id
               THEN /\ Len(LinesAfter) = n
                    /\ \E k \in 1 .. n :
                          /\ LinesBefore[k].productId = product.id
                          /\ LinesAfter[k].quantity = LinesBefore[k].quantity + q
                          /\ LinesAfter[k] = [LinesBefore[k] EXCEPT !.quantity = @ + q]
                          /\ \A j \in (1 .. n) \ {k} : LinesAfter[j] = LinesBefore[j]
               ELSE /\ Len(LinesAfter) = n + 1
                    /\ \A j \in 1 .. n : LinesAfter[j] = LinesBefore[j]
                    /\ LinesAfter[n + 1].productId = product.id
                    /\ LinesAfter[n + 1].name = product.name
                    /\ LinesAfter[n + 1].price = product.price
                    /\ LinesAfter[n + 1].category = product.category
                    /\ LinesAfter[n + 1].quantity = q]_vars

\* Two products were added, then two more units of the first: the cart has two
\* lines, the first with three units.
C18_Witness ==
    /\ Len(calls) = 3
    /\ \A k \in 1 .. 3 : calls[k].name = "addItem"
    /\ calls[3].productId = calls[1].productId
    /\ calls[2].productId # calls[1].productId
    /\ calls[1].quantity = 1 /\ calls[3].quantity = 2
    /\ Len(GetCart(storage).items) = 2
    /\ GetCart(storage).items[1].quantity = 3
    /\ GetCart(storage).items[2].productId = calls[2].productId

\* C19: updateQuantity(productId, q) on a cart that has a line of the product
\* removes the line when q <= 0 and sets its quantity to q when q > 0, every
\* other line unchanged; on a cart without such a line it leaves the storage
\* as it is.
C19_UpdateQuantity ==
    [][Calls("updateQuantity") =>
        LET q == Arg.quantity
            n == Len(LinesBefore)
            ks == {k \in 1 .. n : LinesBefore[k].productId = Arg.productId}
        IN  IF ks # {}
            THEN \E k \in ks :
                    /\ q <= 0 => LinesAfter = Without(LinesBefore, k)
                    /\ q > 0 => LinesAfter = [LinesBefore EXCEPT ![k].quantity = q]
            ELSE storage' = storage]_vars

\* The quantity of the first of two lines was set to 0: the call wrote the
\* storage, which holds the second line only.
C19_Witness ==
    /\ Len(calls) = 3
    /\ calls[1].name = "addItem" /\ calls[2].name = "addItem"
    /\ calls[2].productId # calls[1].productId
    /\ calls[3] = [name |-> "updateQuantity", productId |-> calls[1].productId, quantity |-> 0]
    /\ Len(GetCart(storage).items) = 1
    /\ GetCart(storage).items[1].productId = calls[2].productId
    /\ GetCart(storage).updatedAt = now

\* C20: what is read back from the storage after addItem, updateQuantity or
\* removeItem is the lines the call saved, also across a reload; addItem(P, 2)
\* on the empty cart reads back as one line of P with quantity 2, and a
\* removeItem(P) after it makes getCount() 0.
C20_SurvivesReload ==
    [][/\ (Calls("addItem") \/ Calls("removeItem")
            \/ (Calls("updateQuantity") /\ storage' # storage))
          => (storage'.text /\ LinesAfter = held')
       /\ Calls("reload")
          => (LinesAfter = held /\ LinesAfter = LinesBefore /\ ui'.count = SumQuantity(held))
       /\ (Calls("addItem") /\ Len(LinesBefore) = 0 /\ Arg.quantity = 2)
          => /\ Len(LinesAfter) = 1
             /\ LinesAfter[1].productId = Arg.productId
             /\ LinesAfter[1].quantity = 2
       /\ (/\ Calls("removeItem")
           /\ Len(LinesBefore) = 1
           /\ LinesBefore[1].productId = Arg.productId)
          => GetCount(storage') = 0]_vars

\* addItem(P, 2) on the empty cart, a reload, then removeItem(P): the storage
\* holds a cart without lines and the count is 0.
C20_Witness ==
    /\ Len(calls) = 3
    /\ calls[1].name = "addItem" /\ calls[1].quantity = 2
    /\ calls[2].name = "reload"
    /\ calls[3].name = "removeItem" /\ calls[3].productId = calls[1].productId
    /\ storage.text
    /\ GetCount(storage) = 0
    /\ ui.count = 0

\* C21: over a storage entry that is absent, unreadable or not valid JSON,
\* getCart() does not throw and returns a cart without items, getTotal() and
\* getCount() return 0, and the page shows that.
C21_BadStorageReadsEmpty ==
    (storage \in {NoText, Unreadable} \cup InvalidTexts) =>
        /\ ~GetCartThrows(storage)
        /\ GetCart(storage).items = <<>>
        /\ GetTotal(storage) = 0
        /\ GetCount(storage) = 0
        /\ ui.count = 0 /\ ui.subtotal = 0

\* The page has been loaded again over a text that does not parse.
C21_Witness ==
    /\ storage \in InvalidTexts
    /\ Len(calls) > 0
    /\ calls[Len(calls)].name = "reload"
    /\ GetCount(storage) = 0

\* C22: every line of the persisted cart has a quantity of at least 1, whatever
\* the shopper does with the shop grid, the modal and the drawer.
C22_QuantityAtLeastOne ==
    \A k \in 1 .. Len(GetCart(storage).items) : GetCart(storage).items[k].quantity >= 1

\* C23: initiateCheckout over an empty cart sends no request, leaves the
\* checkout button as it is and does not navigate.
C23_EmptyCartNoOp ==
    [][(Calls("initiateCheckout") /\ Len(LinesBefore) = 0) =>
          /\ sent' = sent
          /\ btn' = btn
          /\ location' = location
          /\ UNCHANGED <<pending, alerts, storage>>]_vars

\* The cart was filled and emptied again, line by line, before the checkout
\* button was pressed: nothing has been sent.
C23_Witness ==
    /\ Len(calls) = 3
    /\ calls[1].name = "addItem"
    /\ calls[2].name = "removeItem" /\ calls[2].productId = calls[1].productId
    /\ calls[3].name = "initiateCheckout"
    /\ storage.text
    /\ sent = <<>>
    /\ btn = ButtonReady
    /\ location = "shop"

\* The request has settled without a URL to go to.
Failed(r) == r.kind \in {"rejected", "unparsed"} \/ ~r.ok \/ r.sessionUrl = ""

\* C24: when the checkout request fails (the fetch rejects, the response is
\* not ok, or it carries no sessionUrl) the persisted cart stays as it was,
\* the browser stays on the storefront, the error is shown, the button is
\* enabled again under its original label, and no further request is sent.
C24_FailedCheckoutRestores ==
    [][(Calls("checkoutResponse") /\ Failed(pending'.response)) =>
          /\ storage' = storage
          /\ location' = "shop"
          /\ Len(alerts') = Len(alerts) + 1
          /\ alerts'[Len(alerts')].message =
                (IF pending'.response.error # "" THEN pending'.response.error
                 ELSE IF ~pending'.response.ok THEN "Checkout failed"
                 ELSE "No checkout URL received")
          /\ btn' = ButtonReady
          /\ sent' = sent
          /\ ~pending'.active]_vars

\* An ok response without sessionUrl has been handled: the shopper has been
\* told, the cart and the button are as before the checkout.
C24_Witness ==
    /\ Len(calls) = 3
    /\ calls[1].name = "addItem"
    /\ calls[2].name = "initiateCheckout"
    /\ calls[3].name = "checkoutResponse"
    /\ pending.response.ok /\ pending.response.kind = "response"
    /\ Len(alerts) = 1 /\ alerts[1].message = "No checkout URL received"
    /\ btn = ButtonReady
    /\ Len(sent) = 1
    /\ Len(GetCart(storage).items) = 1
    /\ location = "shop"

\* C25: the persisted cart is emptied only by a return from the payment
\* provider with checkout=success or by Cart.clear(); initiating a checkout,
\* its response and redirect, and a return with checkout=cancelled leave the
\* cart lines as they are.
C25_ClearedOnlyOnSuccess ==
    [][/\ (LinesAfter # LinesBefore \/ (storage.text /\ ~storage'.text)) =>
              \/ Calls("addItem") \/ Calls("removeItem") \/ Calls("updateQuantity")
              \/ Calls("clear")
              \/ (Calls("checkoutReturn") /\ Arg.productId = "success")
       /\ (Calls("checkoutReturn") /\ Arg.productId = "success") => ~storage'.text
       /\ (\/ Calls("initiateCheckout")
           \/ Calls("checkoutResponse")
           \/ (Calls("checkoutReturn") /\ Arg.productId = "cancelled")) => storage' = storage]_vars

\* The shopper has gone to the payment provider and come back with
\* checkout=cancelled: the line is still in the cart.
C25_Witness ==
    /\ Len(calls) = 4
    /\ calls[1].name = "addItem"
    /\ calls[2].name = "initiateCheckout"
    /\ calls[3].name = "checkoutResponse"
    /\ calls[4].name = "checkoutReturn" /\ calls[4].productId = "cancelled"
    /\ Len(GetCart(storage).items) = 1
    /\ GetCart(storage).items[1].productId = calls[1].productId
    /\ location = "shop"

\* C26: when the inventory transaction of one item of an order fails, the
\* handler goes on to the transaction of the next physical item of the order.
C26_DecrementsIndependent ==
    [][\A d \in Deliveries :
          LET h == hook[d]
              k == NextOfCategory(OrderItemsOf(h), h.i + 1, "physical")
          IN  (/\ h.pc \in {"txnGet", "txnCommit"}
               /\ hook'[d] # h
               /\ faults' # faults
               /\ k # 0)
              => (hook'[d].pc = "txnGet" /\ hook'[d].i = k)]_vars

\* C27: once the Order of a delivery is persisted, its confirmation message
\* is eventually queued unless the write of that message itself fails, also
\* when an inventory transaction of the order failed.
C27_ConfirmationEventuallyQueued ==
    (\E o \in orders : o.id = 1)
        ~> (\/ \E m \in mail : m.order = 1 /\ m.subject = "Order Confirmation"
                               /\ m.to = CustomerEmail(hook[1].object)
            \/ (hook[1].pc = "done" /\ hook[1].failed /\ hook[1].at = "mail"))

\* The units of product pid the items ask for, all items together.
RECURSIVE RequestedOf(_, _)
RequestedOf(items, pid) ==
    IF Len(items) = 0 THEN 0
    ELSE (IF Head(items).productId = pid THEN Head(items).quantity ELSE 0)
            + RequestedOf(Tail(items), pid)

\* C28: in an accepted request, the units asked for a physical product with a
\* finite inventory, over all items naming it, do not exceed the inventory read
\* for it during validation.
C28_TotalWithinInventory ==
    (req.pc = "done" /\ req.status = 200) =>
        \A k \in 1 .. Len(req.fetched) :
            LET product == req.fetched[k]
                pid == req.body.items.list[k].productId
            IN  (product.category = "physical" /\ product.inventory # Unlimited)
                    => RequestedOf(req.body.items.list, pid) <= product.inventory

\* No two of the lines name the same product.
DistinctProducts(items) ==
    \A j, k \in 1 .. Len(items) : items[j].productId = items[k].productId => j = k

\* C29: the persisted cart never holds two lines of the same product, and the
\* items initiateCheckout sends are the cart's lines in their order, each
\* product once, each item with a productId and a quantity and nothing else.
C29_OneLinePerProduct ==
    [][/\ DistinctProducts(LinesAfter)
       /\ (Calls("initiateCheckout") /\ Len(LinesBefore) > 0) =>
             /\ Len(sent') = Len(sent) + 1
             /\ LET items == sent'[Len(sent')].items
                IN  /\ Len(items) = Len(LinesBefore)
                    /\ DistinctProducts(items)
                    /\ \A k \in 1 .. Len(items) :
                          /\ DOMAIN items[k] = {"productId", "quantity"}
                          /\ items[k].productId = LinesBefore[k].productId
                          /\ items[k].quantity = LinesBefore[k].quantity]_vars

\* A product was added twice and another once before the checkout: two items
\* were sent, the first with two units.
C29_Witness ==
    /\ Len(calls) = 4
    /\ calls[1].name = "addItem" /\ calls[2].name = "addItem" /\ calls[3].name = "addItem"
    /\ calls[3].productId = calls[1].productId
    /\ calls[2].productId # calls[1].productId
    /\ calls[4].name = "initiateCheckout"
    /\ Len(sent) = 1
    /\ Len(sent[1].items) = 2
    /\ sent[1].items[1] = [productId |-> calls[1].productId, quantity |-> 2]
    /\ sent[1].items[2] = [productId |-> calls[2].productId, quantity |-> 1]

\* C30: saveProduct stores the inventory the admin entered when that is -1 or
\* an integer from 0 up; once 0 has been entered for a physical product,
\* createCheckoutSession rejects the purchase of it.
C30_SavesEnteredInventory ==
    [][/\ Calls("saveProduct") =>
            \A n \in -1 .. InitStock + 1 :
                Arg.quantity = ToString(n) => products'[Arg.productId].inventory = n
       /\ (/\ req.pc = "fetch"
           /\ req' # req
           /\ faults' = faults
           /\ Len(calls) > 0
           /\ calls[Len(calls)].quantity = "0"
           /\ req.body.items.list[req.i].productId = calls[Len(calls)].productId)
          => req'.status = 400]_vars


====
